---------------------------- MODULE Spec2Model ----------------------------
(***************************************************************************)
(* Model of the sandboxed script executor, src/modal/scraper_executor.py:  *)
(* execute_webhook (the request boundary), execute_typescript_script (the  *)
(* coordinator: manifest, provisioning subprocesses, credential check,     *)
(* script run, envelope) and parse_execution_output (the extractor).       *)
(*                                                                         *)
(* One behaviour is one request.  The coordinator is a straight-line       *)
(* function whose only blocking points are its subprocess.run calls, so    *)
(* the model has one action per stretch of code between two such calls;    *)
(* pc names the next stretch to run.  Time is in whole seconds (now), the  *)
(* envelope's executionTime in milliseconds.  stdout is a sequence of      *)
(* lines, each line one token (a sentinel, a JSON value, free text).       *)
(***************************************************************************)
EXTENDS Integers, Sequences, FiniteSets, TLC

VARIABLES
    \* the request (execute_webhook's request_data)
    script_code, dependencies, tool_type, max_items, test_mode, timeout_seconds,
    \* the host process environment: the names of the variables that are set
    os_environ,
    \* the coordinator
    pc, now, start_time, temp_dir, files, package_json,
    spawned, exec_result, script_started, parse_calls, raised,
    \* the text written to scraper.ts, and what the extractor returned
    headless_script, result_data,
    \* what execute_webhook returned: <<>> until it returns, then <<envelope>>
    result,
    \* the environment given to the script's process, and the processes of
    \* its tree that are running
    env, running,
    \* concurrent invocations on one host: each one's step, request, workspace
    \* and returned envelope, the host's file system, and who wrote where
    inv_pc, inv_tool, inv_dir, inv_result, fs, touched,
    \* BBBScraper.scrape_all_pages: its position, the loop variable, the
    \* instance's seen_urls, the locals urls, all_company_urls and
    \* companies_data, the browser, the search pages fetched and the company
    \* pages fetched so far, and the company pages of the site that fail
    bbb_pc, page_num, seen_urls, urls, all_company_urls, companies_data,
    browser, visited, detailed, broken

request == <<script_code, dependencies, tool_type, max_items, test_mode,
             timeout_seconds, os_environ>>
conc    == <<inv_pc, inv_tool, inv_dir, inv_result, fs, touched>>
child   == <<env, running>>
bbb     == <<bbb_pc, page_num, seen_urls, urls, all_company_urls,
             companies_data, browser, visited, detailed, broken>>
vars    == <<script_code, dependencies, tool_type, max_items, test_mode,
             timeout_seconds, os_environ, pc, now, start_time, temp_dir, files,
             package_json, spawned, exec_result, script_started, parse_calls,
             raised, headless_script, result_data, result,
             inv_pc, inv_tool, inv_dir, inv_result, fs, touched,
             env, running,
             bbb_pc, page_num, seen_urls, urls, all_company_urls,
             companies_data, browser, visited, detailed, broken>>

-----------------------------------------------------------------------------
(* Bounds of the model *)

\* longest dependencies list of a request
MaxDeps == 1
\* longest run, in seconds, of a subprocess that ends by itself
MaxDur == 1
\* the tolerance, in milliseconds, of "approximately"
ToleranceMs == 500

(* Program constants *)

NpmInstallTimeout     == 120
StealthInstallTimeout == 120
BrowserInstallTimeout == 300
BrowserRetryTimeout   == 180
DefaultMaxItems       == 1000
DefaultTimeoutSeconds == 300

-----------------------------------------------------------------------------
(* The values requests are drawn from *)

STAGEHAND == "@browserbasehq/stagehand"

DepNames == {STAGEHAND, "playwright-stealth", "zod"}

ToolTypes == {"stagehand", "playwright", "hybrid", "test"}

EnvNames == {"OPENAI_API_KEY", "ANTHROPIC_API_KEY"}

TimeoutChoices == {3, DefaultTimeoutSeconds}

RECURSIVE SeqsUpTo(_, _)
SeqsUpTo(S, n) ==
    IF n = 0 THEN {<<>>}
    ELSE LET shorter == SeqsUpTo(S, n - 1)
         IN  shorter \cup {Append(s, x) : s \in {t \in shorter : Len(t) = n - 1}, x \in S}

-----------------------------------------------------------------------------
(* Python string tests on the request, as tables over the modelled names *)

\* tool_type.lower().startswith(prefix)
StartsWithLower(t, prefix) ==
    CASE prefix = "stagehand"  -> t \in {"stagehand", "Stagehand-v2"}
      [] prefix = "playwright" -> t \in {"playwright"}
      [] prefix = "hybrid"     -> t \in {"hybrid"}
      [] OTHER                 -> FALSE

\* the package names that occur as a substring of the dependency name d
SubstringsOf(d) ==
    CASE d = STAGEHAND            -> {STAGEHAND, "stagehand"}
      [] d = "playwright-stealth" -> {"playwright-stealth", "playwright", "stealth"}
      [] d = "playwright"         -> {"playwright"}
      [] OTHER                    -> {d}

\* pkg in str(deps)
InStr(pkg, deps) == \E i \in 1..Len(deps) : pkg \in SubstringsOf(deps[i])

\* pkg in deps
InList(pkg, deps) == \E i \in 1..Len(deps) : deps[i] = pkg

-----------------------------------------------------------------------------
(* The dependency manifest: package.json's "dependencies" mapping *)

\* d[k] = v
DictSet(d, k, v) == [x \in DOMAIN d \cup {k} |-> IF x = k THEN v ELSE d[x]]

\* d.setdefault(k, v)
SetDefault(d, k, v) == IF k \in DOMAIN d THEN d ELSE DictSet(d, k, v)

CoreDependencies ==
    [x \in {"typescript", "ts-node", "@types/node"} |->
        CASE x = "typescript" -> "^5.0.0"
          [] x = "ts-node"    -> "^10.9.0"
          [] OTHER            -> "^20.0.0"]

\* one round of the loop over the declared dependencies
AddDeclared(d, dep) ==
    CASE dep = STAGEHAND ->
            DictSet(DictSet(DictSet(DictSet(d,
                STAGEHAND, "^1.7.0"),
                "@anthropic-ai/sdk", "^0.29.0"),
                "openai", "^4.56.0"),
                "playwright", "^1.48.2")
      [] dep = "playwright" -> DictSet(d, "playwright", "^1.48.2")
      [] dep = "zod"        -> DictSet(d, "zod", "^3.23.8")
      [] dep = "uuid"       -> DictSet(DictSet(d, "uuid", "^10.0.0"),
                                       "@types/uuid", "^10.0.0")
      [] OTHER              -> d

RECURSIVE AddAllDeclared(_, _)
AddAllDeclared(d, deps) ==
    IF deps = <<>> THEN d
    ELSE AddAllDeclared(AddDeclared(d, Head(deps)), Tail(deps))

\* the safety net applied only when the package is declared
StagehandSafetyNetDeclaredOnly(d, deps, t) ==
    IF InStr(STAGEHAND, deps)
    THEN SetDefault(SetDefault(SetDefault(SetDefault(SetDefault(d,
            STAGEHAND, "^1.7.0"),
            "zod", "^3.23.8"),
            "@anthropic-ai/sdk", "^0.29.0"),
            "openai", "^4.56.0"),
            "playwright", "^1.48.2")
    ELSE d

StagehandSafetyNet(d, deps, t) ==
    IF StartsWithLower(t, "stagehand") \/ InStr(STAGEHAND, deps)
    THEN SetDefault(SetDefault(SetDefault(SetDefault(SetDefault(d,
            STAGEHAND, "^1.7.0"),
            "zod", "^3.23.8"),
            "@anthropic-ai/sdk", "^0.29.0"),
            "openai", "^4.56.0"),
            "playwright", "^1.48.2")
    ELSE d

\* the playwright rule with another pin for zod
PlaywrightSafetyNetOtherPin(d, t) ==
    IF StartsWithLower(t, "playwright")
    THEN SetDefault(SetDefault(d, "playwright", "^1.48.2"), "zod", "^3.22.0")
    ELSE d

PlaywrightSafetyNet(d, t) ==
    IF StartsWithLower(t, "playwright")
    THEN SetDefault(SetDefault(d, "playwright", "^1.48.2"), "zod", "^3.23.8")
    ELSE d

\* the hybrid rule assigning its entries
HybridSafetyNetAssigns(d, t) ==
    IF StartsWithLower(t, "hybrid")
    THEN DictSet(DictSet(DictSet(DictSet(DictSet(d,
            "playwright", "latest"),
            STAGEHAND, "latest"),
            "zod", "latest"),
            "@anthropic-ai/sdk", "latest"),
            "openai", "latest")
    ELSE d

HybridSafetyNet(d, t) ==
    IF StartsWithLower(t, "hybrid")
    THEN SetDefault(SetDefault(SetDefault(SetDefault(SetDefault(d,
            "playwright", "^1.48.2"),
            STAGEHAND, "^1.7.0"),
            "zod", "^3.23.8"),
            "@anthropic-ai/sdk", "^0.29.0"),
            "openai", "^4.56.0")
    ELSE d

BuildManifest(deps, t) ==
    HybridSafetyNet(
        PlaywrightSafetyNet(
            StagehandSafetyNet(AddAllDeclared(CoreDependencies, deps), deps, t),
            t),
        t)

-----------------------------------------------------------------------------
(* The script transformation.  A script text is a sequence of atoms, each  *)
(* atom a piece of text no pattern cuts through; str.replace replaces the  *)
(* occurrences of a sequence of atoms from left to right.                  *)

HF         == "headless: false"
HT         == "headless: true"
OPEN       == "{ "
CLOSE      == " }"
ARGS       == ",\n    args: ["
SANDBOX    == "\n      '--no-sandbox',\n      '--disable-setuid-sandbox',"
NEW_STAGEHAND == "new Stagehand({"
DISPLAY_PREFIX == "\n// Set display for Stagehand headless mode\nprocess.env.DISPLAY = ':99';\n\n"
NEWLINE    == "\n"

\* text.replace(pat, rep)
RECURSIVE Replace(_, _, _)
Replace(text, pat, rep) ==
    IF Len(text) < Len(pat) THEN text
    ELSE IF SubSeq(text, 1, Len(pat)) = pat
         THEN rep \o Replace(SubSeq(text, Len(pat) + 1, Len(text)), pat, rep)
         ELSE <<Head(text)>> \o Replace(Tail(text), pat, rep)

Contains(text, atom) == \E i \in 1..Len(text) : text[i] = atom

\* text.replace(pat, rep, 1)
ReplaceFirst(text, pat, rep) ==
    IF \E i \in 1..(Len(text) - Len(pat) + 1) : SubSeq(text, i, i + Len(pat) - 1) = pat
    THEN LET i == CHOOSE k \in 1..(Len(text) - Len(pat) + 1) :
                    /\ SubSeq(text, k, k + Len(pat) - 1) = pat
                    /\ \A j \in 1..(k - 1) : SubSeq(text, j, j + Len(pat) - 1) # pat
         IN  SubSeq(text, 1, i - 1) \o rep \o SubSeq(text, i + Len(pat), Len(text))
    ELSE text

\* only the first visible-window literal rewritten
ForceHeadlessFirstOnly(script) ==
    ReplaceFirst(ReplaceFirst(script, <<HF>>, <<HT>>),
                 <<OPEN, HF, CLOSE>>, <<OPEN, HT, CLOSE>>)

ForceHeadless(script) ==
    Replace(Replace(script, <<HF>>, <<HT>>),
            <<OPEN, HF, CLOSE>>, <<OPEN, HT, CLOSE>>)

\* "playwright-stealth" in str(dependencies) or "stealth" in script_code.lower()
StealthDetected(script, deps) ==
    InStr("playwright-stealth", deps) \/ Contains(script, "stealth")

StealthArgs(text, script, deps) ==
    IF StealthDetected(script, deps)
    THEN Replace(Replace(text, <<HF>>, <<HT>>),
                 <<HT, ARGS>>, <<HT, ARGS, SANDBOX>>)
    ELSE text

\* the display assignment put before every script
StagehandDisplayAlways(text, deps) == <<DISPLAY_PREFIX>> \o text \o <<NEWLINE>>

StagehandDisplay(text, deps) ==
    IF InList(STAGEHAND, deps)
    THEN <<DISPLAY_PREFIX>> \o text \o <<NEWLINE>>
    ELSE text

\* "hybrid" in tool_type.lower()
ContainsLower(t, word) == word = "hybrid" /\ t \in {"hybrid"}

HybridDetected(deps, t) ==
    ContainsLower(t, "hybrid") \/ (InStr("stagehand", deps) /\ InStr("playwright", deps))

HybridHeadless(text, deps, t) ==
    IF HybridDetected(deps, t)
    THEN Replace(text, <<NEW_STAGEHAND>>, <<NEW_STAGEHAND, " ", HT, ",">>)
    ELSE text

TransformScript(script, deps, t) ==
    HybridHeadless(
        StagehandDisplay(
            StealthArgs(ForceHeadless(script), script, deps),
            deps),
        deps, t)

-----------------------------------------------------------------------------
(* Which provisioning steps and which launcher a request needs *)

browser_packages == {"playwright", STAGEHAND, "puppeteer"}
stealth_packages == {"playwright-stealth", "playwright-extra",
                     "puppeteer-stealth", "puppeteer-extra"}

needs_browsers ==
    \/ \E pkg \in browser_packages : InStr(pkg, dependencies)
    \/ StartsWithLower(tool_type, "stagehand")
    \/ StartsWithLower(tool_type, "playwright")
    \/ StartsWithLower(tool_type, "hybrid")

needs_stealth == \E pkg \in stealth_packages : InStr(pkg, dependencies)

UsesVirtualDisplay ==
    \/ InList(STAGEHAND, dependencies)
    \/ StartsWithLower(tool_type, "stagehand")
    \/ StartsWithLower(tool_type, "playwright")
    \/ StartsWithLower(tool_type, "hybrid")

exec_command == IF UsesVirtualDisplay THEN "xvfb-run npx ts-node scraper.ts"
                ELSE "npx ts-node scraper.ts"

\* the variables the coordinator copies by name from the host environment
required_env_vars ==
    {"ANTHROPIC_API_KEY", "BROWSERBASE_API_KEY", "BROWSERBASE_PROJECT_ID",
     "NEXT_PUBLIC_SUPABASE_URL", "NEXT_PUBLIC_SUPABASE_ANON_KEY",
     "SUPABASE_SERVICE_ROLE_KEY", "OPENAI_API_KEY", "OPENAI_MODEL",
     "ANTHROPIC_MODEL"}

\* the variables the coordinator sets itself
ExecutionParameters == {"NODE_PATH", "MAX_ITEMS", "TEST_MODE"}

\* the value variable n has in the host environment
HostValue(n) == "host value"

\* env = os.environ.copy(), the execution parameters, DISPLAY unless the
\* host has one, and the loop over required_env_vars (which copies again
\* what the copy already holds)
ChildEnv ==
    [n \in os_environ \cup ExecutionParameters \cup {"DISPLAY"} |->
        CASE n = "NODE_PATH" -> "node_modules"
          [] n = "MAX_ITEMS" -> ToString(max_items)
          [] n = "TEST_MODE" -> IF test_mode THEN "true" ELSE "false"
          [] n = "DISPLAY" /\ "DISPLAY" \notin os_environ -> ":99"
          [] OTHER -> HostValue(n)]

\* the processes under the script's process: xvfb-run starts the X server
\* and the command, npx starts node
Descendants(cmd) ==
    IF cmd = "xvfb-run npx ts-node scraper.ts"
    THEN {"Xvfb", "node ts-node scraper.ts"}
    ELSE {"node ts-node scraper.ts"}

\* subprocess.run on expiry kills and reaps the process it started; the
\* processes below it get no signal and may or may not have ended
Survivors(cmd) == SUBSET Descendants(cmd)

\* bool(env.get("OPENAI_API_KEY")) or bool(env.get("ANTHROPIC_API_KEY"))
HasLLMKey == "OPENAI_API_KEY" \in os_environ \/ "ANTHROPIC_API_KEY" \in os_environ

-----------------------------------------------------------------------------
(* Captured output and the extractor, parse_execution_output *)

\* JSON documents: an object (its members a function on their keys) or an array
JDict(members) == [type |-> "dict", members |-> members]
JList(items)   == [type |-> "list", items |-> items]
None           == [type |-> "none"]

\* the lines a script can print
StartMarker  == [kind |-> "start"]   \* === EXECUTION_RESULTS_START ===
EndMarker    == [kind |-> "end"]     \* === EXECUTION_RESULTS_END ===
TextLine     == [kind |-> "text"]    \* a diagnostic line
BracesLine   == [kind |-> "braces"]  \* starts with { and ends with }, not JSON
JsonLine(v)  == [kind |-> "json", value |-> v]

\* stdout.find(marker): the first line that is the marker, 0 when there is none
Find(stdout, marker) ==
    IF \E i \in 1..Len(stdout) : stdout[i].kind = marker.kind
    THEN CHOOSE i \in 1..Len(stdout) :
            /\ stdout[i].kind = marker.kind
            /\ \A j \in 1..(i - 1) : stdout[j].kind # marker.kind
    ELSE 0

\* stdout[start_idx + len(start_marker):end_idx]
Between(stdout, start_idx, end_idx) == SubSeq(stdout, start_idx + 1, end_idx - 1)

\* json.loads(text.strip()) succeeds exactly on one JSON document
Loadable(text) == Len(text) = 1 /\ text[1].kind = "json"

\* the fallback's test of one line: braces at both ends, and json.loads succeeds
IsRecordLine(line) == line.kind = "json" /\ line.value.type = "dict"

\* the scan returning the last line that parses
FallbackScanLast(stdout) ==
    IF \E i \in 1..Len(stdout) : IsRecordLine(stdout[i])
    THEN stdout[CHOOSE i \in 1..Len(stdout) :
                    /\ IsRecordLine(stdout[i])
                    /\ \A j \in (i + 1)..Len(stdout) : ~IsRecordLine(stdout[j])].value
    ELSE None

FallbackScan(stdout) ==
    IF \E i \in 1..Len(stdout) : IsRecordLine(stdout[i])
    THEN stdout[CHOOSE i \in 1..Len(stdout) :
                    /\ IsRecordLine(stdout[i])
                    /\ \A j \in 1..(i - 1) : ~IsRecordLine(stdout[j])].value
    ELSE None

\* the extractor with the line scan tried before the markers
parse_execution_output_scan_first(stdout) ==
    IF FallbackScan(stdout) # None THEN FallbackScan(stdout)
    ELSE LET start_idx == Find(stdout, StartMarker)
             end_idx   == Find(stdout, EndMarker)
             json_str  == Between(stdout, start_idx, end_idx)
         IN  IF start_idx # 0 /\ end_idx # 0 /\ Loadable(json_str)
             THEN json_str[1].value ELSE None

parse_execution_output(stdout) ==
    LET start_idx == Find(stdout, StartMarker)
        end_idx   == Find(stdout, EndMarker)
        json_str  == Between(stdout, start_idx, end_idx)
    IN  IF start_idx # 0 /\ end_idx # 0
        THEN IF Loadable(json_str) THEN json_str[1].value
             ELSE None   \* json.loads raised: the outer except returns None
        ELSE FallbackScan(stdout)

\* Python truthiness of the extractor's return value
Truthy(v) ==
    CASE v.type = "dict" -> DOMAIN v.members # {}
      [] v.type = "list" -> v.items # <<>>
      [] OTHER           -> FALSE

\* result_data.get(key, default); only a dict has get
HasGet(v) == v.type = "dict"
Get(v, key, default) == IF key \in DOMAIN v.members THEN v.members[key] ELSE default

\* text[:500]
PreviewLimit == 500
Preview(text) == SubSeq(text, 1, IF Len(text) < PreviewLimit THEN Len(text) ELSE PreviewLimit)

-----------------------------------------------------------------------------
(* The result envelopes, one definition per return statement.  An f-string *)
(* error entry is the pair <<its fixed text, the text formatted into it>>. *)

\* int((time.time() - start_time) * 1000) at time t
ExecutionTime(t) == (t - start_time) * 1000

MissingScriptEnvelope ==
    [success |-> FALSE, data |-> <<>>, totalFound |-> 0,
     errors |-> << <<"No script code provided">> >>,
     executionTime |-> 0,
     metadata |-> [toolUsed |-> tool_type, testMode |-> test_mode,
                   error |-> "Missing script code"]]

WebhookErrorEnvelope(e) ==
    [success |-> FALSE, data |-> <<>>, totalFound |-> 0,
     errors |-> << <<"Webhook error: ", e>> >>,
     executionTime |-> 0,
     metadata |-> [toolUsed |-> tool_type, testMode |-> test_mode,
                   webhookError |-> e]]

DependencyFailureEnvelope(stderr, t) ==
    [success |-> FALSE, data |-> <<>>, totalFound |-> 0,
     errors |-> << <<"Dependency installation failed: ", stderr>> >>,
     executionTime |-> ExecutionTime(t),
     metadata |-> [toolUsed |-> tool_type, testMode |-> test_mode,
                   phase |-> "dependency_installation"]]

EnvValidationEnvelope(t) ==
    [success |-> FALSE, data |-> <<>>, totalFound |-> 0,
     errors |-> << <<"No LLM API key configured for Stagehand.">>,
                   <<"Neither OPENAI_API_KEY nor ANTHROPIC_API_KEY found in Modal secret/environment.">>,
                   <<"Add one of these to the Modal secret 'scraper-secrets-v2': OPENAI_API_KEY or ANTHROPIC_API_KEY.">> >>,
     executionTime |-> ExecutionTime(t),
     metadata |-> [toolUsed |-> tool_type, testMode |-> test_mode,
                   phase |-> "environment_validation"]]

\* the success envelope trusting the payload's own count
SuccessEnvelopeDeclaredCount(payload, t) ==
    [success |-> TRUE,
     data |-> Get(payload, "data", <<>>),
     totalFound |-> Get(payload, "totalFound", 0),
     errors |-> <<>>,
     executionTime |-> ExecutionTime(t),
     metadata |-> [toolUsed |-> tool_type, testMode |-> test_mode,
                   originalCount |-> Get(payload, "totalFound", 0),
                   limited |-> Len(Get(payload, "data", <<>>)) >= max_items]]

\* the success envelope with data cut to max_items records
\* the first max_items records
Truncated(records) ==
    IF Len(records) > max_items THEN SubSeq(records, 1, max_items) ELSE records

SuccessEnvelopeTruncated(payload, t) ==
    [success |-> TRUE,
     data |-> Truncated(Get(payload, "data", <<>>)),
     totalFound |-> Len(Truncated(Get(payload, "data", <<>>))),
     errors |-> <<>>,
     executionTime |-> ExecutionTime(t),
     metadata |-> [toolUsed |-> tool_type, testMode |-> test_mode,
                   originalCount |-> Get(payload, "totalFound", 0),
                   limited |-> Len(Get(payload, "data", <<>>)) >= max_items]]

SuccessEnvelope(payload, t) ==
    [success |-> TRUE,
     data |-> Get(payload, "data", <<>>),
     totalFound |-> Len(Get(payload, "data", <<>>)),
     errors |-> <<>>,
     executionTime |-> ExecutionTime(t),
     metadata |-> [toolUsed |-> tool_type, testMode |-> test_mode,
                   originalCount |-> Get(payload, "totalFound", 0),
                   limited |-> Len(Get(payload, "data", <<>>)) >= max_items]]

\* a run without payload reported as a failure
NoOutputEnvelopeAsFailure(stdout, t) ==
    [success |-> FALSE, data |-> <<>>, totalFound |-> 0,
     errors |-> << <<"Script executed successfully but no structured output found">> >>,
     executionTime |-> ExecutionTime(t),
     metadata |-> [toolUsed |-> tool_type, testMode |-> test_mode,
                   stdout |-> Preview(stdout)]]

NoOutputEnvelope(stdout, t) ==
    [success |-> TRUE, data |-> <<>>, totalFound |-> 0,
     errors |-> << <<"Script executed successfully but no structured output found">> >>,
     executionTime |-> ExecutionTime(t),
     metadata |-> [toolUsed |-> tool_type, testMode |-> test_mode,
                   stdout |-> Preview(stdout)]]

\* the failed-script envelope reporting success
ScriptFailedEnvelopeAsSuccess(r, t) ==
    [success |-> TRUE, data |-> <<>>, totalFound |-> 0,
     errors |-> << <<"Script execution failed: ", r.stderr>> >>,
     executionTime |-> ExecutionTime(t),
     metadata |-> [toolUsed |-> tool_type, testMode |-> test_mode,
                   returnCode |-> r.returncode,
                   stderr |-> Preview(r.stderr),
                   stdout |-> Preview(r.stdout)]]

\* the failure envelope carrying what the script printed before it failed
ScriptFailedEnvelopeWithPartial(r, t) ==
    [success |-> FALSE,
     data |-> Get(parse_execution_output(r.stdout), "data", <<>>),
     totalFound |-> Len(Get(parse_execution_output(r.stdout), "data", <<>>)),
     errors |-> << <<"Script execution failed: ", r.stderr>> >>,
     executionTime |-> ExecutionTime(t),
     metadata |-> [toolUsed |-> tool_type, testMode |-> test_mode,
                   returnCode |-> r.returncode,
                   stderr |-> Preview(r.stderr),
                   stdout |-> Preview(r.stdout)]]

ScriptFailedEnvelope(r, t) ==
    [success |-> FALSE, data |-> <<>>, totalFound |-> 0,
     errors |-> << <<"Script execution failed: ", r.stderr>> >>,
     executionTime |-> ExecutionTime(t),
     metadata |-> [toolUsed |-> tool_type, testMode |-> test_mode,
                   returnCode |-> r.returncode,
                   stderr |-> Preview(r.stderr),
                   stdout |-> Preview(r.stdout)]]

\* the timeout envelope without its testMode entry
TimeoutEnvelopeNoTestMode(t) ==
    [success |-> FALSE, data |-> <<>>, totalFound |-> 0,
     errors |-> << <<"Script execution timed out after ", timeout_seconds, " seconds">> >>,
     executionTime |-> ExecutionTime(t),
     metadata |-> [toolUsed |-> tool_type, timeout |-> TRUE]]

\* the timeout envelope reporting the nominal timeout as the time taken
TimeoutEnvelopeNominalTime(t) ==
    [success |-> FALSE, data |-> <<>>, totalFound |-> 0,
     errors |-> << <<"Script execution timed out after ", timeout_seconds, " seconds">> >>,
     executionTime |-> timeout_seconds * 1000,
     metadata |-> [toolUsed |-> tool_type, testMode |-> test_mode,
                   timeout |-> TRUE]]

TimeoutEnvelope(t) ==
    [success |-> FALSE, data |-> <<>>, totalFound |-> 0,
     errors |-> << <<"Script execution timed out after ", timeout_seconds, " seconds">> >>,
     executionTime |-> ExecutionTime(t),
     metadata |-> [toolUsed |-> tool_type, testMode |-> test_mode,
                   timeout |-> TRUE]]

UnexpectedEnvelope(e, t) ==
    [success |-> FALSE, data |-> <<>>, totalFound |-> 0,
     errors |-> << <<"Unexpected error: ", e>> >>,
     executionTime |-> ExecutionTime(t),
     metadata |-> [toolUsed |-> tool_type, testMode |-> test_mode,
                   error |-> e]]

-----------------------------------------------------------------------------
(* Subprocesses: subprocess.run(cmd, capture_output=True, timeout=limit)   *)
(* blocks until the child exits, with some exit code after some seconds    *)
(* below the limit, or until the limit, when it kills the child and raises *)
(* TimeoutExpired.                                                         *)

NPM_INSTALL     == "npm install"
STEALTH_INSTALL == "npm install playwright-stealth playwright-extra ..."
BROWSER_INSTALL == "npx playwright install chromium --with-deps"
BROWSER_RETRY   == "npx playwright install chromium"

ErrText == <<"E", "R", "R">>

Completed(cmd, rc, stdout, d) ==
    [cmd |-> cmd, returncode |-> rc, timed_out |-> FALSE, seconds |-> d,
     stdout |-> stdout, stderr |-> IF rc = 0 THEN <<>> ELSE ErrText]

TimedOut(cmd, limit) ==
    [cmd |-> cmd, returncode |-> -9, timed_out |-> TRUE, seconds |-> limit,
     stdout |-> <<>>, stderr |-> <<>>]

\* what the log of spawned processes keeps of one
Logged(r) == [cmd |-> r.cmd, returncode |-> r.returncode, timed_out |-> r.timed_out]

\* the ways a provisioning subprocess can end
Outcomes(cmd, limit) ==
    {Completed(cmd, rc, <<>>, d) : rc \in {0, 1}, d \in {x \in 0..MaxDur : x < limit}}
        \cup {TimedOut(cmd, limit)}

\* the stdout texts the script is let to print in a full run
P1 == JDict([data |-> <<"r1", "r2">>, totalFound |-> 5])
P2 == JDict([totalFound |-> 1])
SampleStdouts ==
    { <<TextLine>>,
      <<TextLine, StartMarker, JsonLine(P1), EndMarker>>,
      <<TextLine, JsonLine(P2)>>,
      <<StartMarker, JsonLine(JList(<<"r1">>)), EndMarker>>,
      <<StartMarker, BracesLine, EndMarker, JsonLine(P1)>> }

\* ... and in a run it ends with a non-zero exit code
FailedStdouts == { <<TextLine, StartMarker, JsonLine(P1), EndMarker>> }

ScriptOutcomes ==
    {Completed(exec_command, 0, out, d) :
        out \in SampleStdouts, d \in {x \in 0..MaxDur : x < timeout_seconds}}
        \cup {Completed(exec_command, 1, out, d) :
        out \in FailedStdouts, d \in {x \in 0..MaxDur : x < timeout_seconds}}
        \cup {TimedOut(exec_command, timeout_seconds)}

-----------------------------------------------------------------------------
(* Leaving execute_typescript_script: the with-block's exit removes the    *)
(* workspace, and execute_webhook hands the envelope on unchanged.         *)

\* leaving without the with-block: a workspace made by mkdtemp stays
LeaveWithoutCleanup(envelope) ==
    /\ result' = <<envelope>>
    /\ pc' = "done"
    /\ UNCHANGED <<temp_dir, files>>

Leave(envelope) ==
    /\ result' = <<envelope>>
    /\ pc' = "done"
    /\ temp_dir' = IF temp_dir = "exists" THEN "removed" ELSE temp_dir
    /\ files' = {}

\* TimeoutExpired falling into the handler of Exception
OnTimeoutExpiredAsException(t) ==
    /\ raised' = "TimeoutExpired"
    /\ Leave(UnexpectedEnvelope("TimeoutExpired", t))

\* except subprocess.TimeoutExpired
OnTimeoutExpired(t) ==
    /\ raised' = "TimeoutExpired"
    /\ Leave(TimeoutEnvelope(t))

\* except Exception as e
\* the exception leaving the function: no handler turns it into an envelope
OnExceptionPropagates(e, t) ==
    /\ raised' = "Exception"
    /\ pc' = "done"
    /\ temp_dir' = IF temp_dir = "exists" THEN "removed" ELSE temp_dir
    /\ files' = {}
    /\ UNCHANGED result


OnException(e, t) ==
    /\ raised' = "Exception"
    /\ Leave(UnexpectedEnvelope(e, t))

\* the step after a provisioning subprocess that did not end the request
Continue(next) ==
    /\ pc' = next
    /\ UNCHANGED <<temp_dir, files, raised, result>>

-----------------------------------------------------------------------------
(* Concurrent invocations *)

\* the invocations running at once on one host
MaxInvocations == 2
Invocations == 1..MaxInvocations

\* the names mkdtemp can draw; the host's own directories are HOST
TempNames == 1..(MaxInvocations + 1)
HOST == 0

\* no BBBScraper in the process
NoBBB ==
    /\ bbb_pc = "idle"
    /\ page_num = 0
    /\ seen_urls = {}
    /\ urls = <<>>
    /\ all_company_urls = <<>>
    /\ companies_data = <<>>
    /\ browser = "none"
    /\ visited = <<>>
    /\ detailed = <<>>
    /\ broken = {}

\* a run of one request alone
NoConcurrency ==
    /\ inv_pc = <<>>
    /\ inv_tool = <<>>
    /\ inv_dir = <<>>
    /\ inv_result = <<>>
    /\ fs = {}
    /\ touched = {}

-----------------------------------------------------------------------------
(* The request *)

Init ==
    /\ script_code \in {<<>>, <<"main()">>}
    /\ dependencies \in SeqsUpTo(DepNames, MaxDeps)
    /\ tool_type \in ToolTypes
    /\ max_items = DefaultMaxItems
    /\ test_mode \in BOOLEAN
    /\ timeout_seconds \in TimeoutChoices
    /\ os_environ \in SUBSET EnvNames
    /\ pc = "webhook"
    /\ now = 0
    /\ start_time = 0
    /\ temp_dir = "none"
    /\ files = {}
    /\ package_json = <<>>
    /\ spawned = <<>>
    /\ exec_result = <<>>
    /\ script_started = -1
    /\ parse_calls = 0
    /\ raised = "none"
    /\ headless_script = <<>>
    /\ result_data = None
    /\ result = <<>>
    /\ env = <<>>
    /\ running = {}
    /\ NoConcurrency
    /\ NoBBB

(* execute_webhook *)

\* the webhook without its check of script_code
WebhookForwardsEmpty ==
    /\ pc = "webhook"
    /\ script_code = <<>>
    /\ pc' = "create_workspace"
    /\ start_time' = now
    /\ UNCHANGED <<request, bbb, conc, child, headless_script, result_data, now, temp_dir, files, package_json, spawned,
                   exec_result, script_started, parse_calls, raised, result>>

WebhookRejectsEmpty ==
    /\ pc = "webhook"
    /\ script_code = <<>>
    /\ result' = <<MissingScriptEnvelope>>
    /\ pc' = "done"
    /\ UNCHANGED <<request, bbb, conc, child, headless_script, result_data, now, start_time, temp_dir, files, package_json,
                   spawned, exec_result, script_started, parse_calls, raised>>

WebhookCallsRemote ==
    /\ pc = "webhook"
    /\ script_code # <<>>
    /\ pc' = "create_workspace"
    /\ start_time' = now
    /\ UNCHANGED <<request, bbb, conc, child, headless_script, result_data, now, temp_dir, files, package_json, spawned,
                   exec_result, script_started, parse_calls, raised, result>>

\* execute_typescript_script.remote raises: the remote function never ran
WebhookRemoteFails ==
    /\ pc = "webhook"
    /\ script_code # <<>>
    /\ result' = <<WebhookErrorEnvelope("remote call failed")>>
    /\ pc' = "done"
    /\ UNCHANGED <<request, bbb, conc, child, headless_script, result_data, now, start_time, temp_dir, files, package_json,
                   spawned, exec_result, script_started, parse_calls, raised>>

(* execute_typescript_script *)

CreateWorkspace ==
    /\ pc = "create_workspace"
    /\ temp_dir' = "exists"
    /\ pc' = "write_files"
    /\ UNCHANGED <<request, bbb, conc, child, headless_script, result_data, now, start_time, files, package_json, spawned,
                   exec_result, script_started, parse_calls, raised, result>>

WriteFiles ==
    /\ pc = "write_files"
    /\ package_json' = BuildManifest(dependencies, tool_type)
    /\ headless_script' = TransformScript(script_code, dependencies, tool_type)
    /\ files' = files \cup {"package.json", "scraper.ts"}
    /\ pc' = "npm_install"
    /\ UNCHANGED <<request, bbb, conc, child, result_data, now, start_time, temp_dir,
                   spawned, exec_result, script_started, parse_calls, raised,
                   result>>

AfterNpmInstall ==
    IF needs_browsers
    THEN IF ~needs_stealth THEN "stealth_install" ELSE "browser_install"
    ELSE "configure"

\* npm install with its exit code not looked at
NpmInstallIgnoresExitCode ==
    /\ pc = "npm_install"
    /\ \E install_result \in Outcomes(NPM_INSTALL, NpmInstallTimeout) :
        /\ spawned' = Append(spawned, Logged(install_result))
        /\ now' = now + install_result.seconds
        /\ IF install_result.timed_out
           THEN OnTimeoutExpired(now')
           ELSE Continue(AfterNpmInstall)
    /\ UNCHANGED <<request, bbb, conc, child, headless_script, result_data, start_time, package_json, exec_result,
                   script_started, parse_calls>>

\* npm install run again after a non-zero exit
NpmInstallRetries ==
    /\ pc = "npm_install"
    /\ \E install_result \in Outcomes(NPM_INSTALL, NpmInstallTimeout) :
        /\ spawned' = Append(spawned, Logged(install_result))
        /\ now' = now + install_result.seconds
        /\ IF install_result.timed_out
           THEN OnTimeoutExpired(now')
           ELSE IF install_result.returncode # 0
           THEN Continue("npm_install")
           ELSE Continue(AfterNpmInstall)
    /\ UNCHANGED <<request, bbb, conc, child, headless_script, result_data, start_time, package_json, exec_result,
                   script_started, parse_calls>>

NpmInstall ==
    /\ pc = "npm_install"
    /\ \E install_result \in Outcomes(NPM_INSTALL, NpmInstallTimeout) :
        /\ spawned' = Append(spawned, Logged(install_result))
        /\ now' = now + install_result.seconds
        /\ IF install_result.timed_out
           THEN OnTimeoutExpired(now')
           ELSE IF install_result.returncode # 0
           THEN /\ Leave(DependencyFailureEnvelope(install_result.stderr, now'))
                /\ UNCHANGED raised
           ELSE Continue(AfterNpmInstall)
    /\ UNCHANGED <<request, bbb, conc, child, headless_script, result_data, start_time, package_json, exec_result,
                   script_started, parse_calls>>

StealthInstall ==
    /\ pc = "stealth_install"
    /\ \E stealth_install \in Outcomes(STEALTH_INSTALL, StealthInstallTimeout) :
        /\ spawned' = Append(spawned, Logged(stealth_install))
        /\ now' = now + stealth_install.seconds
        /\ IF stealth_install.timed_out
           THEN OnTimeoutExpired(now')
           ELSE Continue("browser_install")
    /\ UNCHANGED <<request, bbb, conc, child, headless_script, result_data, start_time, package_json, exec_result,
                   script_started, parse_calls>>

BrowserInstall ==
    /\ pc = "browser_install"
    /\ \E browser_install_result \in Outcomes(BROWSER_INSTALL, BrowserInstallTimeout) :
        /\ spawned' = Append(spawned, Logged(browser_install_result))
        /\ now' = now + browser_install_result.seconds
        /\ IF browser_install_result.timed_out
           THEN OnTimeoutExpired(now')
           ELSE IF browser_install_result.returncode # 0
           THEN Continue("browser_retry")
           ELSE Continue("configure")
    /\ UNCHANGED <<request, bbb, conc, child, headless_script, result_data, start_time, package_json, exec_result,
                   script_started, parse_calls>>

\* the retry run until it exits with code 0
BrowserRetryUntilInstalled ==
    /\ pc = "browser_retry"
    /\ \E retry_result \in Outcomes(BROWSER_RETRY, BrowserRetryTimeout) :
        /\ spawned' = Append(spawned, Logged(retry_result))
        /\ now' = now + retry_result.seconds
        /\ IF retry_result.timed_out
           THEN OnTimeoutExpired(now')
           ELSE IF retry_result.returncode # 0
           THEN Continue("browser_retry")
           ELSE Continue("configure")
    /\ UNCHANGED <<request, bbb, conc, child, headless_script, result_data, start_time, package_json, exec_result,
                   script_started, parse_calls>>

BrowserRetry ==
    /\ pc = "browser_retry"
    /\ \E retry_result \in Outcomes(BROWSER_RETRY, BrowserRetryTimeout) :
        /\ spawned' = Append(spawned, Logged(retry_result))
        /\ now' = now + retry_result.seconds
        /\ IF retry_result.timed_out
           THEN OnTimeoutExpired(now')
           ELSE Continue("configure")
    /\ UNCHANGED <<request, bbb, conc, child, headless_script, result_data, start_time, package_json, exec_result,
                   script_started, parse_calls>>

\* tsconfig.json, the child's environment, the LLM key check
Configure ==
    /\ pc = "configure"
    /\ env' = ChildEnv
    /\ IF ~HasLLMKey
       THEN /\ Leave(EnvValidationEnvelope(now))
       ELSE /\ pc' = "run_script"
            /\ files' = files \cup {"tsconfig.json"}
            /\ UNCHANGED <<temp_dir, result>>
    /\ UNCHANGED <<request, bbb, conc, running, headless_script, result_data, now,
                   start_time, package_json, spawned, exec_result,
                   script_started, parse_calls, raised>>

\* the script run without a timeout: a script that does not exit is waited
\* for without end
RunScriptWithoutTimeout ==
    /\ pc = "run_script"
    /\ script_started' = now
    /\ \E r \in ScriptOutcomes :
        IF r.timed_out
        THEN /\ pc' = "waiting"
             /\ running' = {exec_command} \cup Descendants(exec_command)
             /\ UNCHANGED <<spawned, now, exec_result, temp_dir, files,
                            raised, result>>
        ELSE /\ spawned' = Append(spawned, Logged(r))
             /\ now' = now + r.seconds
             /\ exec_result' = <<r>>
             /\ running' = {}
             /\ Continue("build_result")
    /\ UNCHANGED <<request, bbb, conc, env, headless_script, result_data,
                   start_time, package_json, parse_calls>>

RunScript ==
    /\ pc = "run_script"
    /\ script_started' = now
    /\ \E r \in ScriptOutcomes :
        /\ spawned' = Append(spawned, Logged(r))
        /\ now' = now + r.seconds
        /\ IF r.timed_out
           THEN /\ OnTimeoutExpired(now')
                /\ running' \in Survivors(exec_command)
                /\ UNCHANGED exec_result
           ELSE /\ exec_result' = <<r>>
                /\ running' = {}
                /\ Continue("build_result")
    /\ UNCHANGED <<request, bbb, conc, env, headless_script, result_data,
                   start_time, package_json, parse_calls>>

BuildResult ==
    /\ pc = "build_result"
    /\ LET r == exec_result[1]
           parsed == parse_execution_output(r.stdout)
       IN  IF r.returncode = 0
           THEN /\ parse_calls' = parse_calls + 1
                /\ result_data' = parsed
                /\ IF Truthy(parsed)
                   THEN IF HasGet(parsed)
                        THEN /\ Leave(SuccessEnvelope(parsed, now))
                             /\ UNCHANGED raised
                        ELSE OnException("'list' object has no attribute 'get'", now)
                   ELSE /\ Leave(NoOutputEnvelope(r.stdout, now))
                        /\ UNCHANGED raised
           ELSE /\ Leave(ScriptFailedEnvelope(r, now))
                /\ UNCHANGED <<parse_calls, raised, result_data>>
    /\ UNCHANGED <<request, bbb, conc, child, headless_script, now, start_time,
                   package_json, spawned, exec_result, script_started>>

\* any other fault inside the try block: a file cannot be written, an
\* executable is missing
InFunction == {"write_files", "npm_install", "stealth_install",
               "browser_install", "browser_retry", "configure", "run_script"}

UnexpectedFault ==
    /\ pc \in InFunction
    /\ OnException("OSError", now)
    /\ UNCHANGED <<request, bbb, conc, child, headless_script, result_data, now, start_time, package_json, spawned,
                   exec_result, script_started, parse_calls>>

Next ==
    \/ WebhookRejectsEmpty
    \/ WebhookCallsRemote
    \/ WebhookRemoteFails
    \/ CreateWorkspace
    \/ WriteFiles
    \/ NpmInstall
    \/ StealthInstall
    \/ BrowserInstall
    \/ BrowserRetry
    \/ Configure
    \/ RunScript
    \/ BuildResult
    \/ UnexpectedFault

Spec == Init /\ [][Next]_vars

-----------------------------------------------------------------------------
(* Several invocations of execute_typescript_script at once on one host.   *)
(* Each is followed through the steps that create, write or delete files;  *)
(* the file system is a set of (directory, name) entries, and touched logs *)
(* which invocation's step wrote or deleted in which directory.            *)

ConcToolTypes == {"stagehand", "test"}

ProcessOutcomes == {"ok", "failed", "timeout"}

Entry(d, n) == [dir |-> d, name |-> n]
Touch(i, d, o) == [by |-> i, dir |-> d, op |-> o]

\* mkdtemp draws a name no existing directory has
FreshDir(d) == \A e \in fs : e.dir # d

\* needs_browsers for a request with no declared dependencies
ConcNeedsBrowsers(t) ==
    \/ StartsWithLower(t, "stagehand")
    \/ StartsWithLower(t, "playwright")
    \/ StartsWithLower(t, "hybrid")

ConcEnvelope(i, ok) == [success |-> ok, toolUsed |-> inv_tool[i]]

ConcStep(i, next) ==
    /\ inv_pc' = [inv_pc EXCEPT ![i] = next]
    /\ UNCHANGED <<request, bbb, child, headless_script, result_data, pc, now,
                   start_time, temp_dir, files, package_json, spawned,
                   exec_result, script_started, parse_calls, raised, result,
                   inv_tool>>

ConcWrite(i, d, names) ==
    /\ fs' = fs \cup {Entry(d, n) : n \in names}
    /\ touched' = touched \cup {Touch(i, d, "write")}

\* the with statement's exit: rmtree of the invocation's own directory
ConcRemove(i) ==
    /\ fs' = {e \in fs : e.dir # inv_dir[i]}
    /\ touched' = touched \cup {Touch(i, inv_dir[i], "delete")}

ConcReturn(i, ok) ==
    /\ inv_result' = [inv_result EXCEPT ![i] = <<ConcEnvelope(i, ok)>>]
    /\ ConcRemove(i)
    /\ UNCHANGED inv_dir
    /\ ConcStep(i, "done")

InitConc ==
    /\ script_code = <<"main()">>
    /\ dependencies = <<>>
    /\ tool_type = "test"
    /\ max_items = DefaultMaxItems
    /\ test_mode = FALSE
    /\ timeout_seconds = DefaultTimeoutSeconds
    /\ os_environ = {"OPENAI_API_KEY"}
    /\ pc = "concurrent"
    /\ now = 0
    /\ start_time = 0
    /\ temp_dir = "none"
    /\ files = {}
    /\ package_json = <<>>
    /\ spawned = <<>>
    /\ exec_result = <<>>
    /\ script_started = -1
    /\ parse_calls = 0
    /\ raised = "none"
    /\ headless_script = <<>>
    /\ result_data = None
    /\ result = <<>>
    /\ env = <<>>
    /\ running = {}
    /\ inv_pc = [i \in Invocations |-> "create_workspace"]
    /\ inv_tool \in [Invocations -> ConcToolTypes]
    /\ inv_dir = [i \in Invocations |-> HOST]
    /\ inv_result = [i \in Invocations |-> <<>>]
    /\ fs = {}
    /\ touched = {}
    /\ NoBBB

ConcCreateWorkspace(i) ==
    /\ inv_pc[i] = "create_workspace"
    /\ \E d \in TempNames :
          /\ FreshDir(d)
          /\ inv_dir' = [inv_dir EXCEPT ![i] = d]
          /\ ConcWrite(i, d, {"."})
    /\ UNCHANGED inv_result
    /\ ConcStep(i, "write_files")

ConcWriteFiles(i) ==
    /\ inv_pc[i] = "write_files"
    /\ ConcWrite(i, inv_dir[i], {"package.json", "scraper.ts"})
    /\ UNCHANGED <<inv_dir, inv_result>>
    /\ ConcStep(i, "npm_install")

ConcNpmInstall(i) ==
    /\ inv_pc[i] = "npm_install"
    /\ \E o \in ProcessOutcomes :
          IF o = "ok"
          THEN /\ ConcWrite(i, inv_dir[i], {"node_modules"})
               /\ UNCHANGED <<inv_dir, inv_result>>
               /\ ConcStep(i, IF ConcNeedsBrowsers(inv_tool[i])
                              THEN "browser_install" ELSE "run_script")
          ELSE ConcReturn(i, FALSE)

\* npx playwright install chromium --with-deps: the browser and the system
\* packages go to the host, not to cwd
ConcBrowserInstall(i) ==
    /\ inv_pc[i] = "browser_install"
    /\ \E o \in ProcessOutcomes :
          CASE o = "ok" ->
                  /\ ConcWrite(i, HOST, {"chromium", "system-deps"})
                  /\ UNCHANGED <<inv_dir, inv_result>>
                  /\ ConcStep(i, "run_script")
            [] o = "failed" ->
                  /\ UNCHANGED <<fs, touched, inv_dir, inv_result>>
                  /\ ConcStep(i, "browser_retry")
            [] OTHER -> ConcReturn(i, FALSE)

\* npx playwright install chromium
ConcBrowserRetry(i) ==
    /\ inv_pc[i] = "browser_retry"
    /\ \E o \in ProcessOutcomes :
          CASE o = "ok" ->
                  /\ ConcWrite(i, HOST, {"chromium"})
                  /\ UNCHANGED <<inv_dir, inv_result>>
                  /\ ConcStep(i, "run_script")
            [] o = "failed" ->
                  /\ UNCHANGED <<fs, touched, inv_dir, inv_result>>
                  /\ ConcStep(i, "run_script")
            [] OTHER -> ConcReturn(i, FALSE)

ConcRunScript(i) ==
    /\ inv_pc[i] = "run_script"
    /\ Entry(inv_dir[i], "scraper.ts") \in fs
    /\ ConcWrite(i, inv_dir[i], {"tsconfig.json"})
    /\ UNCHANGED <<inv_dir, inv_result>>
    /\ ConcStep(i, "leave")

ConcLeave(i) ==
    /\ inv_pc[i] = "leave"
    /\ \E o \in ProcessOutcomes : ConcReturn(i, o = "ok")

NextConc ==
    \E i \in Invocations :
        \/ ConcCreateWorkspace(i)
        \/ ConcWriteFiles(i)
        \/ ConcNpmInstall(i)
        \/ ConcBrowserInstall(i)
        \/ ConcBrowserRetry(i)
        \/ ConcRunScript(i)
        \/ ConcLeave(i)

SpecConc == InitConc /\ [][NextConc]_vars

-----------------------------------------------------------------------------
(* The steps from the child's environment to the envelope, after a         *)
(* provisioning in which every install exited with code 0, over more host  *)
(* environments, dependency names and item limits than a whole run is      *)
(* given.                                                                  *)

RunDepNames == {STAGEHAND, "playwright", "zod"}

HostEnvNames == {"OPENAI_API_KEY", "AWS_SECRET_ACCESS_KEY", "DISPLAY"}

\* the log a provisioning without failures leaves
ProvisionedLog ==
    <<Logged(Completed(NPM_INSTALL, 0, <<>>, 0))>>
      \o (IF needs_browsers /\ ~needs_stealth
          THEN <<Logged(Completed(STEALTH_INSTALL, 0, <<>>, 0))>> ELSE <<>>)
      \o (IF needs_browsers
          THEN <<Logged(Completed(BROWSER_INSTALL, 0, <<>>, 0))>> ELSE <<>>)

InitRun ==
    /\ script_code = <<"main()">>
    /\ dependencies \in SeqsUpTo(RunDepNames, MaxDeps)
    /\ tool_type \in ToolTypes
    /\ max_items \in {1, DefaultMaxItems}
    /\ test_mode \in BOOLEAN
    /\ timeout_seconds = DefaultTimeoutSeconds
    /\ os_environ \in SUBSET HostEnvNames
    /\ pc = "configure"
    /\ now = 0
    /\ start_time = 0
    /\ temp_dir = "exists"
    /\ files = {"package.json", "scraper.ts"}
    /\ package_json = BuildManifest(dependencies, tool_type)
    /\ headless_script = TransformScript(script_code, dependencies, tool_type)
    /\ spawned = ProvisionedLog
    /\ exec_result = <<>>
    /\ script_started = -1
    /\ parse_calls = 0
    /\ raised = "none"
    /\ result_data = None
    /\ result = <<>>
    /\ env = <<>>
    /\ running = {}
    /\ NoConcurrency
    /\ NoBBB

NextRun ==
    \/ Configure
    \/ RunScript
    \/ BuildResult

SpecRun == InitRun /\ [][NextRun]_vars

-----------------------------------------------------------------------------
(* One invocation of execute_typescript_script from its first statement,   *)
(* with the interpreter always taking the next step of the function.       *)

InitFair ==
    /\ script_code = <<"main()">>
    /\ dependencies \in SeqsUpTo(DepNames, MaxDeps)
    /\ tool_type \in ToolTypes
    /\ max_items = DefaultMaxItems
    /\ test_mode = FALSE
    /\ timeout_seconds \in TimeoutChoices \ {DefaultTimeoutSeconds}
    /\ os_environ \in {{}, {"OPENAI_API_KEY"}}
    /\ pc = "create_workspace"
    /\ now = 0
    /\ start_time = 0
    /\ temp_dir = "none"
    /\ files = {}
    /\ package_json = <<>>
    /\ spawned = <<>>
    /\ exec_result = <<>>
    /\ script_started = -1
    /\ parse_calls = 0
    /\ raised = "none"
    /\ headless_script = <<>>
    /\ result_data = None
    /\ result = <<>>
    /\ env = <<>>
    /\ running = {}
    /\ NoConcurrency
    /\ NoBBB

NextFair ==
    \/ CreateWorkspace
    \/ WriteFiles
    \/ NpmInstall
    \/ StealthInstall
    \/ BrowserInstall
    \/ BrowserRetry
    \/ Configure
    \/ RunScript
    \/ BuildResult
    \/ UnexpectedFault

\* the function is sequential code: whenever a next statement exists, it
\* is executed, and every subprocess.run call returns or raises
SpecFair == InitFair /\ [][NextFair]_vars /\ WF_vars(NextFair)

-----------------------------------------------------------------------------
(* BBBScraper.scrape_all_pages (src/src/bbb_scraper.py).  Company URLs are *)
(* numbers.  What a search page holds is decided when it is fetched: the   *)
(* hrefs the selector loop reads, in the order it reads them, or an error  *)
(* before the loop.  A page's new URLs are numbered on from the highest    *)
(* URL seen so far.                                                        *)

max_pages == 15

\* most hrefs read on one search page
MaxLinks == 2

\* company pages of the site that may fail to load
FlakyUrls == {1}

executor == <<pc, now, start_time, temp_dir, files, package_json, spawned,
              exec_result, script_started, parse_calls, raised,
              headless_script, result_data, result>>

Highest(S) == IF S = {} THEN 0 ELSE CHOOSE x \in S : \A y \in S : y <= x
Lowest(S)  == CHOOSE x \in S : \A y \in S : x <= y

\* the hrefs a page can show: one already seen, and up to two new ones
Candidates(seen) ==
    (IF seen = {} THEN {} ELSE {Lowest(seen)})
        \cup {Highest(seen) + 1, Highest(seen) + 2}

LinkLists(seen) ==
    {l \in SeqsUpTo(Candidates(seen), MaxLinks) :
        \A i \in 1..Len(l) :
            l[i] = Highest(seen) + 2 =>
                \E j \in 1..(i - 1) : l[j] = Highest(seen) + 1}

\* the loop over the links with no look at seen_urls
RECURSIVE CollectUnchecked(_, _, _)
CollectUnchecked(links, seen, company_urls) ==
    IF links = <<>> THEN [company_urls |-> company_urls, seen |-> seen]
    ELSE CollectUnchecked(Tail(links), seen \cup {Head(links)},
                          Append(company_urls, Head(links)))

\* if full_url not in self.seen_urls: append it and add it to seen_urls
RECURSIVE Collect(_, _, _)
Collect(links, seen, company_urls) ==
    IF links = <<>> THEN [company_urls |-> company_urls, seen |-> seen]
    ELSE IF Head(links) \in seen
         THEN Collect(Tail(links), seen, company_urls)
         ELSE Collect(Tail(links), seen \cup {Head(links)},
                      Append(company_urls, Head(links)))

\* extract_search_results on a page that loaded and showed links
extract_search_results(links, seen) == Collect(links, seen, <<>>)

InitBBB ==
    /\ script_code = <<>>
    /\ dependencies = <<>>
    /\ tool_type = "test"
    /\ max_items = DefaultMaxItems
    /\ test_mode = FALSE
    /\ timeout_seconds = DefaultTimeoutSeconds
    /\ os_environ = {}
    /\ pc = "idle"
    /\ now = 0
    /\ start_time = 0
    /\ temp_dir = "none"
    /\ files = {}
    /\ package_json = <<>>
    /\ spawned = <<>>
    /\ exec_result = <<>>
    /\ script_started = -1
    /\ parse_calls = 0
    /\ raised = "none"
    /\ headless_script = <<>>
    /\ result_data = None
    /\ result = <<>>
    /\ env = <<>>
    /\ running = {}
    /\ NoConcurrency
    /\ bbb_pc = "launch"
    /\ page_num = 0
    /\ seen_urls = {}
    /\ urls = <<>>
    /\ all_company_urls = <<>>
    /\ companies_data = <<>>
    /\ browser = "none"
    /\ visited = <<>>
    /\ detailed = <<>>
    /\ broken \in SUBSET FlakyUrls

\* an exception leaving the try block: finally closes the browser
BBBRaise ==
    /\ bbb_pc' = "raised"
    /\ browser' = "closed"

\* firefox.launch, new_context, new_page: before the try block.  When one
\* of the last two raises, leaving async_playwright stops the driver and
\* with it the browser.
BBBLaunch ==
    /\ bbb_pc = "launch"
    /\ \/ bbb_pc' = "homepage" /\ browser' = "open"
       \/ bbb_pc' = "raised" /\ browser' = "none"
       \/ bbb_pc' = "raised" /\ browser' = "closed"
    /\ UNCHANGED <<request, conc, child, executor, page_num, seen_urls, urls,
                   all_company_urls, companies_data, visited, detailed, broken>>

BBBHomepage ==
    /\ bbb_pc = "homepage"
    /\ \/ bbb_pc' = "search" /\ page_num' = 1 /\ UNCHANGED browser
       \/ BBBRaise /\ UNCHANGED page_num
    /\ UNCHANGED <<request, conc, child, executor, seen_urls, urls,
                   all_company_urls, companies_data, visited, detailed, broken>>

\* the loop over the search pages without its break
BBBSearchPageNoBreak ==
    /\ bbb_pc = "search"
    /\ visited' = Append(visited, page_num)
    /\ \/ urls' = <<>> /\ UNCHANGED seen_urls
       \/ \E links \in LinkLists(seen_urls) :
             LET r == extract_search_results(links, seen_urls)
             IN  urls' = r.company_urls /\ seen_urls' = r.seen
    /\ all_company_urls' = all_company_urls \o urls'
    /\ IF page_num = max_pages
       THEN bbb_pc' = "details" /\ UNCHANGED <<page_num, browser>>
       ELSE \/ page_num' = page_num + 1 /\ UNCHANGED <<bbb_pc, browser>>
            \/ BBBRaise /\ UNCHANGED page_num
    /\ UNCHANGED <<request, conc, child, executor, companies_data, detailed,
                   broken>>

\* one round of the loop over the search pages: the page fails before its
\* links are read, or its links are read
BBBSearchPage ==
    /\ bbb_pc = "search"
    /\ visited' = Append(visited, page_num)
    /\ \/ urls' = <<>> /\ UNCHANGED seen_urls
       \/ \E links \in LinkLists(seen_urls) :
             LET r == extract_search_results(links, seen_urls)
             IN  urls' = r.company_urls /\ seen_urls' = r.seen
    /\ all_company_urls' = all_company_urls \o urls'
    /\ IF urls' = <<>> \/ page_num = max_pages
       THEN bbb_pc' = "details" /\ UNCHANGED <<page_num, browser>>
       ELSE \/ page_num' = page_num + 1 /\ UNCHANGED <<bbb_pc, browser>>
            \/ BBBRaise /\ UNCHANGED page_num
    /\ UNCHANGED <<request, conc, child, executor, companies_data, detailed,
                   broken>>

\* one round of the loop over all_company_urls
BBBCompanyPage ==
    /\ bbb_pc = "details"
    /\ Len(detailed) < Len(all_company_urls)
    /\ LET company_url == all_company_urls[Len(detailed) + 1]
       IN  /\ detailed' = Append(detailed, company_url)
           /\ companies_data' = IF company_url \in broken THEN companies_data
                                ELSE Append(companies_data, company_url)
    /\ \/ UNCHANGED <<bbb_pc, browser>>
       \/ BBBRaise
    /\ UNCHANGED <<request, conc, child, executor, page_num, seen_urls, urls,
                   all_company_urls, visited, broken>>

\* return companies_data, through finally
BBBReturn ==
    /\ bbb_pc = "details"
    /\ Len(detailed) = Len(all_company_urls)
    /\ bbb_pc' = "done"
    /\ browser' = "closed"
    /\ UNCHANGED <<request, conc, child, executor, page_num, seen_urls, urls,
                   all_company_urls, companies_data, visited, detailed, broken>>

NextBBB ==
    \/ BBBLaunch
    \/ BBBHomepage
    \/ BBBSearchPage
    \/ BBBCompanyPage
    \/ BBBReturn

SpecBBB == InitBBB /\ [][NextBBB]_vars

-----------------------------------------------------------------------------
(* The file-writing step alone, over more scripts, dependency lists and    *)
(* tool types than a whole run is given.                                   *)

\* longest script, in atoms
MaxScript == 3
\* longest dependencies list given to the manifest builder
MaxManifestDeps == 2

ScriptAtoms == {HF, OPEN, CLOSE, HT, ARGS, "stealth", NEW_STAGEHAND, "main()"}

ManifestDepNames == {STAGEHAND, "playwright", "zod", "uuid", "left-pad",
                     "playwright-stealth"}

ManifestToolTypes == ToolTypes \cup {"Stagehand-v2"}

\* the known package aliases of the declared-dependency loop
KnownAliases == {STAGEHAND, "playwright", "zod", "uuid"}

InitWrite ==
    /\ \/ /\ script_code \in SeqsUpTo(ScriptAtoms, MaxScript) \ {<<>>}
          /\ dependencies \in SeqsUpTo(DepNames, MaxDeps)
          /\ tool_type \in ToolTypes
       \/ /\ script_code = <<"main()">>
          /\ dependencies \in SeqsUpTo(ManifestDepNames, MaxManifestDeps)
          /\ tool_type \in ManifestToolTypes
    /\ max_items = DefaultMaxItems
    /\ test_mode = FALSE
    /\ timeout_seconds = DefaultTimeoutSeconds
    /\ os_environ = {"OPENAI_API_KEY"}
    /\ pc = "write_files"
    /\ now = 0
    /\ start_time = 0
    /\ temp_dir = "exists"
    /\ files = {}
    /\ package_json = <<>>
    /\ spawned = <<>>
    /\ exec_result = <<>>
    /\ script_started = -1
    /\ parse_calls = 0
    /\ raised = "none"
    /\ headless_script = <<>>
    /\ result_data = None
    /\ result = <<>>
    /\ env = <<>>
    /\ running = {}
    /\ NoConcurrency
    /\ NoBBB

SpecWrite == InitWrite /\ [][WriteFiles]_vars

Written == pc = "npm_install"

-----------------------------------------------------------------------------
(* The result-building step alone, over every stdout of up to MaxLines     *)
(* lines of a script that exited with code 0.                              *)

MaxLines == 4

Lines == {StartMarker, EndMarker, TextLine, BracesLine, JsonLine(P1),
          JsonLine(P2), JsonLine(JList(<<"r1">>))}

InitParse ==
    /\ script_code = <<"main()">>
    /\ dependencies = <<>>
    /\ tool_type = "test"
    /\ max_items \in {2, DefaultMaxItems}
    /\ test_mode = FALSE
    /\ timeout_seconds = DefaultTimeoutSeconds
    /\ os_environ = {"OPENAI_API_KEY"}
    /\ pc = "build_result"
    /\ now = 1
    /\ start_time = 0
    /\ temp_dir = "exists"
    /\ files = {"package.json", "scraper.ts", "tsconfig.json"}
    /\ package_json = BuildManifest(dependencies, tool_type)
    /\ headless_script = TransformScript(script_code, dependencies, tool_type)
    /\ \E out \in SeqsUpTo(Lines, MaxLines) :
          exec_result = <<Completed(exec_command, 0, out, 1)>>
    /\ spawned = <<Logged(Completed(NPM_INSTALL, 0, <<>>, 0)),
                   Logged(Completed(exec_command, 0, <<>>, 1))>>
    /\ script_started = 0
    /\ parse_calls = 0
    /\ raised = "none"
    /\ result_data = None
    /\ result = <<>>
    /\ env = ChildEnv
    /\ running = {}
    /\ NoConcurrency
    /\ NoBBB

SpecParse == InitParse /\ [][BuildResult]_vars

-----------------------------------------------------------------------------
(* The result-building step alone for a script that exited with a non-zero *)
(* code, over stderr texts shorter and longer than the preview.            *)

\* longest stdout, in lines
MaxFailLines == 2

\* a stderr one unit longer than the preview
LongErrText == [i \in 1..(PreviewLimit + 1) |-> "E"]

ErrTexts == {<<>>, ErrText, LongErrText}

InitFail ==
    /\ script_code = <<"main()">>
    /\ dependencies = <<>>
    /\ tool_type \in ToolTypes
    /\ max_items = DefaultMaxItems
    /\ test_mode = FALSE
    /\ timeout_seconds = DefaultTimeoutSeconds
    /\ os_environ = {"OPENAI_API_KEY"}
    /\ pc = "build_result"
    /\ now = 1
    /\ start_time = 0
    /\ temp_dir = "exists"
    /\ files = {"package.json", "scraper.ts", "tsconfig.json"}
    /\ package_json = BuildManifest(dependencies, tool_type)
    /\ headless_script = TransformScript(script_code, dependencies, tool_type)
    /\ \E out \in SeqsUpTo(Lines, MaxFailLines), e \in ErrTexts, rc \in {1, 2} :
          exec_result = <<[Completed(exec_command, rc, out, 1) EXCEPT !.stderr = e]>>
    /\ spawned = ProvisionedLog
                   \o <<Logged(Completed(exec_command, exec_result[1].returncode, <<>>, 1))>>
    /\ script_started = 0
    /\ parse_calls = 0
    /\ raised = "none"
    /\ result_data = None
    /\ result = <<>>
    /\ env = ChildEnv
    /\ running = {}
    /\ NoConcurrency
    /\ NoBBB

SpecFail == InitFail /\ [][BuildResult]_vars


-----------------------------------------------------------------------------
(* What the claims speak of *)

Returned == result # <<>>
Envelope == result[1]

EnvelopeFields == {"success", "data", "totalFound", "errors", "executionTime",
                   "metadata"}

\* the log entries of the script child process (at most one)
ScriptRuns == {i \in 1..Len(spawned) : spawned[i].cmd = exec_command}
ScriptLaunched  == ScriptRuns # {}
ScriptTimedOut  == \E i \in ScriptRuns : spawned[i].timed_out
ScriptExitedZero ==
    \E i \in ScriptRuns : ~spawned[i].timed_out /\ spawned[i].returncode = 0
ScriptExitedNonZero ==
    \E i \in ScriptRuns : ~spawned[i].timed_out /\ spawned[i].returncode # 0

\* the manifest install is the first process of a run
InstallRan      == Len(spawned) >= 1 /\ spawned[1].cmd = NPM_INSTALL
InstallTimedOut == InstallRan /\ spawned[1].timed_out
InstallExitedNonZero ==
    InstallRan /\ ~spawned[1].timed_out /\ spawned[1].returncode # 0

\* the request implies LLM usage
LLMDependent ==
    StartsWithLower(tool_type, "stagehand") \/ InList(STAGEHAND, dependencies)

Abs(x) == IF x < 0 THEN -x ELSE x

(* C1: every returned envelope has exactly the six top-level fields, and   *)
(* its metadata holds toolUsed and testMode.                               *)
C1_EnvelopeShape ==
    Returned =>
        /\ DOMAIN Envelope = EnvelopeFields
        /\ {"toolUsed", "testMode"} \subseteq DOMAIN Envelope.metadata

C1_Witness ==
    /\ Returned
    /\ raised = "TimeoutExpired"
    /\ "timeout" \in DOMAIN Envelope.metadata

(* C2: totalFound is the number of records in data, whatever count the     *)
(* payload declares; the declared count is metadata.originalCount only.    *)
(* The payload of the sample runs declares 5 and holds 2 records.          *)
C2_TotalFoundIsLen ==
    Returned =>
        /\ Envelope.totalFound = Len(Envelope.data)
        /\ Envelope.data = <<"r1", "r2">> =>
              /\ Envelope.totalFound = 2
              /\ Envelope.metadata.originalCount = 5

C2_Witness ==
    /\ Returned
    /\ Envelope.success
    /\ Len(Envelope.data) = 2
    /\ Envelope.metadata.originalCount = 5

(* C3: success is true exactly when the script ran, exited with code 0 and *)
(* no exception reached the coordinator's handlers.                        *)
C3_SuccessIff ==
    Returned => (Envelope.success <=> (ScriptExitedZero /\ raised = "none"))

C3_Witness ==
    /\ Returned
    /\ ScriptExitedZero
    /\ raised = "Exception"
    /\ ~Envelope.success

(* C4: once the function has returned, the workspace directory is gone, on *)
(* every exit path.                                                        *)
C4_WorkspaceRemoved ==
    pc = "done" => (temp_dir # "exists" /\ files = {})

C4_Witness ==
    /\ pc = "done"
    /\ temp_dir = "removed"
    /\ ScriptTimedOut

(* C5: an empty script is rejected with success=false, errors, no phase,   *)
(* and no workspace, file or subprocess ever exists for it.                *)
C5_EmptyScriptRejected ==
    script_code = <<>> =>
        /\ temp_dir = "none" /\ files = {} /\ spawned = <<>>
        /\ Returned =>
              /\ ~Envelope.success
              /\ Envelope.errors # <<>>
              /\ "phase" \notin DOMAIN Envelope.metadata

C5_Witness == Returned /\ script_code = <<>> /\ ~Envelope.success

(* C6: with neither LLM key and an LLM-dependent request, the envelope is  *)
(* the environment_validation failure and no subprocess was spawned.       *)
(* Stated for the runs in which nothing else went wrong.                   *)
C6_ValidationBeforeSpawn ==
    ( /\ Returned
      /\ script_code # <<>>
      /\ LLMDependent
      /\ ~HasLLMKey
      /\ raised = "none"
      /\ "webhookError" \notin DOMAIN Envelope.metadata
      /\ \A i \in 1..Len(spawned) : spawned[i].returncode = 0 )
    =>
        /\ ~Envelope.success
        /\ "phase" \in DOMAIN Envelope.metadata
        /\ Envelope.metadata.phase = "environment_validation"
        /\ spawned = <<>>

(* C7: the script is launched only after a manifest install that exited 0  *)
(* and a passed credential check; the extractor is called only after a     *)
(* script that exited 0.                                                   *)
C7_NoLaterPhaseAfterFailure ==
    /\ ScriptLaunched =>
          /\ InstallRan /\ ~InstallTimedOut /\ ~InstallExitedNonZero
          /\ HasLLMKey
    /\ parse_calls > 0 => ScriptExitedZero
    /\ (ScriptTimedOut \/ ScriptExitedNonZero) => parse_calls = 0

C7_Witness ==
    /\ pc = "done"
    /\ ScriptExitedNonZero
    /\ parse_calls = 0

(* C8: a script that exceeds timeoutSeconds gives success=false and        *)
(* metadata.timeout = true.                                                *)
C8_TimeoutFlag ==
    (Returned /\ ScriptTimedOut) =>
        /\ ~Envelope.success
        /\ "timeout" \in DOMAIN Envelope.metadata
        /\ Envelope.metadata.timeout = TRUE

C8_Witness == Returned /\ ScriptTimedOut /\ ~Envelope.success

(* C9, as claimed: on a script timeout executionTime is within the         *)
(* tolerance of timeoutSeconds * 1000, whatever the provisioning took.     *)
C9_Original ==
    (Returned /\ ScriptTimedOut) =>
        Abs(Envelope.executionTime - timeout_seconds * 1000) <= ToleranceMs

(* C9, amended: on a script timeout executionTime is within the tolerance  *)
(* of the time the provisioning steps took plus timeoutSeconds * 1000, so  *)
(* it is never below timeoutSeconds * 1000 less the tolerance.             *)
C9_TimeIncludesProvisioning ==
    (Returned /\ ScriptTimedOut) =>
        /\ Abs(Envelope.executionTime
               - ((script_started - start_time) + timeout_seconds) * 1000)
              <= ToleranceMs
        /\ Envelope.executionTime >= timeout_seconds * 1000 - ToleranceMs

C9_Witness ==
    /\ Returned
    /\ ScriptTimedOut
    /\ script_started - start_time > 0

(* C10: a failed manifest install, by exit code or by its own timeout, is  *)
(* reported with phase dependency_installation and the installer's stderr, *)
(* never as a script timeout.                                              *)
C10_InstallFailurePhase ==
    (Returned /\ (InstallExitedNonZero \/ InstallTimedOut)) =>
        /\ ~Envelope.success
        /\ "phase" \in DOMAIN Envelope.metadata
        /\ Envelope.metadata.phase = "dependency_installation"
        /\ Envelope.errors[1][1] = "Dependency installation failed: "
        /\ "timeout" \notin DOMAIN Envelope.metadata

(* C11: every failure envelope of the coordinator carries metadata.phase,  *)
(* naming where the failure arose: dependency_installation,                *)
(* environment_validation, execution (non-zero exit), timeout, unexpected. *)
Phases == {"environment_validation", "dependency_installation",
           "browser_provisioning", "execution", "timeout", "output_parsing",
           "unexpected"}

\* the request reached execute_typescript_script
CoordinatorStarted == pc \notin {"webhook"} /\ temp_dir # "none"

C11_FailurePhaseTagged ==
    (Returned /\ CoordinatorStarted /\ ~Envelope.success) =>
        /\ "phase" \in DOMAIN Envelope.metadata
        /\ Envelope.metadata.phase \in Phases
        /\ InstallExitedNonZero => Envelope.metadata.phase = "dependency_installation"
        /\ ScriptExitedNonZero => Envelope.metadata.phase = "execution"
        /\ raised = "TimeoutExpired" => Envelope.metadata.phase = "timeout"
        /\ raised = "Exception" => Envelope.metadata.phase = "unexpected"

(* C12: a step that runs a non-essential install (anti-detection install,  *)
(* browser install, browser-install retry) never ends the request,         *)
(* however the install ends.                                               *)
NonEssentialSteps == {"stealth_install", "browser_install", "browser_retry"}

C12_NonEssentialNeverTerminates ==
    [][(pc \in NonEssentialSteps /\ spawned' # spawned) => pc' # "done"]_vars

(* C13: a fault in any phase ends in an envelope with success=false and a  *)
(* non-empty errors list; a finished request has always returned one.      *)
C13_FaultsBecomeEnvelopes ==
    /\ raised # "none" =>
          /\ Returned
          /\ ~Envelope.success
          /\ Envelope.errors # <<>>
    /\ pc = "done" => Returned

C13_Witness ==
    /\ Returned
    /\ raised = "Exception"
    /\ "error" \in DOMAIN Envelope.metadata
    /\ ~Envelope.success

(* C14: a script that exits 0 and prints neither a sentinel nor a JSON     *)
(* line gives success=true, no data, totalFound 0 and exactly one,         *)
(* explanatory, errors entry.                                              *)
NoPayloadPrinted(stdout) ==
    \A i \in 1..Len(stdout) : stdout[i].kind \in {"text", "braces"}

C14_NoPayloadIsSoftSuccess ==
    ( /\ Returned
      /\ raised = "none"
      /\ ScriptExitedZero
      /\ NoPayloadPrinted(exec_result[1].stdout) )
    =>
        /\ Envelope.success
        /\ Envelope.data = <<>>
        /\ Envelope.totalFound = 0
        /\ Len(Envelope.errors) = 1
        /\ Envelope.errors[1] =
              <<"Script executed successfully but no structured output found">>

C14_Witness ==
    /\ Returned
    /\ ScriptExitedZero
    /\ NoPayloadPrinted(exec_result[1].stdout)
    /\ Envelope.success
    /\ Envelope.errors # <<>>

-----------------------------------------------------------------------------
(* C15 *)

\* the stdout the script's process left
Stdout == exec_result[1].stdout

\* line i is the first start marker, line k the first end marker, and the
\* one line between them is a JSON document
Bracketed(out, i, k) ==
    /\ i \in 1..Len(out) /\ k \in 1..Len(out)
    /\ out[i].kind = "start" /\ \A j \in 1..(i - 1) : out[j].kind # "start"
    /\ out[k].kind = "end"   /\ \A j \in 1..(k - 1) : out[j].kind # "end"
    /\ k = i + 2
    /\ out[i + 1].kind = "json"

\* the data field the envelope takes from a payload
DataOf(v) ==
    IF v.type = "dict" /\ "data" \in DOMAIN v.members THEN v.members.data
    ELSE <<>>

\* C15: when stdout holds both marker lines and the text between them is a
\* JSON document, the extractor returns exactly that document and the
\* envelope's data is its data field, whatever other lines (bare JSON lines
\* included) come before or after the markers.
C15_MarkersWin ==
    (Returned /\ raised = "none") =>
        \A i, k \in 1..Len(Stdout) :
            Bracketed(Stdout, i, k) =>
                /\ result_data = Stdout[i + 1].value
                /\ Envelope.success
                /\ Envelope.data = DataOf(Stdout[i + 1].value)

\* a bare JSON record line precedes the markers and another payload is between them
C15_Witness ==
    /\ Returned
    /\ Len(Stdout) = 4
    /\ Stdout[1] = JsonLine(P2)
    /\ Bracketed(Stdout, 2, 4)
    /\ Stdout[3] = JsonLine(P1)
    /\ result_data = P1
    /\ Envelope.data = <<"r1", "r2">>

-----------------------------------------------------------------------------
(* C16, C17: the manifest *)

\* C16: for every tool type beginning with "stagehand" and every declared
\* dependencies list, the empty one included, the manifest written has the
\* stagehand package, both LLM SDKs, zod and playwright.
C16_StagehandManifest ==
    (Written /\ StartsWithLower(tool_type, "stagehand")) =>
        {STAGEHAND, "@anthropic-ai/sdk", "openai", "zod", "playwright"}
            \subseteq DOMAIN package_json

\* a stagehand tool type in another case, nothing declared
C16_Witness ==
    /\ Written
    /\ tool_type = "Stagehand-v2"
    /\ dependencies = <<>>
    /\ STAGEHAND \in DOMAIN package_json
    /\ "openai" \in DOMAIN package_json

\* C17: every declared dependency that is not a known package alias is a
\* key of the manifest written.
C17_UnknownPassedThrough ==
    Written =>
        \A i \in 1..Len(dependencies) :
            dependencies[i] \notin KnownAliases =>
                dependencies[i] \in DOMAIN package_json

-----------------------------------------------------------------------------
(* C18, C19: the script transformation *)

RECURSIVE Count(_, _)
Count(text, atom) ==
    IF text = <<>> THEN 0
    ELSE (IF Head(text) = atom THEN 1 ELSE 0) + Count(Tail(text), atom)

\* pat occurs in text
HasSub(text, pat) ==
    \E i \in 1..(Len(text) - Len(pat) + 1) :
        SubSeq(text, i, i + Len(pat) - 1) = pat

\* C18: the script written holds no "headless: false", bare or inside
\* "{ ... }", and every occurrence in the caller's script has become
\* "headless: true", for every tool type and dependencies list.
C18_NoVisibleWindow ==
    Written =>
        /\ ~Contains(headless_script, HF)
        /\ Count(headless_script, HT)
              >= Count(script_code, HF) + Count(script_code, HT)

\* both spellings in one script
C18_Witness ==
    /\ Written
    /\ script_code = <<HF, OPEN, HF>> \/ script_code = <<OPEN, HF, CLOSE>>
    /\ HasSub(headless_script, <<OPEN, HT>>)
    /\ ~Contains(headless_script, HF)

\* C19 as stated: a script with no "headless: false" is written unchanged,
\* for every tool type and dependencies list.
C19_Original ==
    (Written /\ ~Contains(script_code, HF)) => headless_script = script_code

\* the additions other than the headless rewrite that apply to this request
DisplayApplies == InList(STAGEHAND, dependencies)
SandboxApplies ==
    /\ StealthDetected(script_code, dependencies)
    /\ HasSub(script_code, <<HT, ARGS>>)
HybridApplies ==
    /\ HybridDetected(dependencies, tool_type)
    /\ Contains(script_code, NEW_STAGEHAND)

\* C19: a script with no "headless: false" is written unchanged unless the
\* display assignment, the sandbox flags or the hybrid constructor patch
\* applies to it.
C19_NoOpOnUnrelated ==
    (Written /\ ~Contains(script_code, HF)
             /\ ~DisplayApplies /\ ~SandboxApplies /\ ~HybridApplies)
        => headless_script = script_code

\* a hybrid request whose script has a launch argument list but no constructor
C19_Witness ==
    /\ Written
    /\ tool_type = "hybrid"
    /\ script_code = <<HT, ARGS, "main()">>
    /\ headless_script = script_code

-----------------------------------------------------------------------------
(* C20 *)

Live(i) == inv_pc[i] \notin {"create_workspace", "done"}

\* C20: in every interleaving each live invocation's workspace differs from
\* every other live one's, every write and delete an invocation's steps make
\* is inside its own workspace, no cleanup removes another invocation's
\* files, and each envelope comes from the invocation's own request.
C20_Isolation ==
    /\ \A i, j \in Invocations :
          (i # j /\ Live(i) /\ Live(j)) => inv_dir[i] # inv_dir[j]
    /\ \A t \in touched : t.dir = inv_dir[t.by]
    /\ \A i \in Invocations :
          inv_pc[i] \in {"npm_install", "browser_install", "browser_retry",
                         "run_script", "leave"}
              => Entry(inv_dir[i], "scraper.ts") \in fs
    /\ \A i \in Invocations :
          inv_result[i] # <<>> => inv_result[i][1].toolUsed = inv_tool[i]

-----------------------------------------------------------------------------
(* C21 *)

\* C21: once the envelope of a script that hit its timeout is returned, no
\* process of the script's process tree is running.
C21_TreeTerminated ==
    (Returned /\ ScriptTimedOut) => running = {}

-----------------------------------------------------------------------------
(* C22, C23 *)

\* the log entries of command cmd
Runs(cmd) == {i \in 1..Len(spawned) : spawned[i].cmd = cmd}

ExitedNonZero(i) == ~spawned[i].timed_out /\ spawned[i].returncode # 0

\* the retry's place in the log and its precondition
RetryDiscipline ==
    /\ Cardinality(Runs(BROWSER_INSTALL)) <= 1
    /\ Cardinality(Runs(BROWSER_RETRY)) <= 1
    /\ \A i \in Runs(BROWSER_RETRY) :
          /\ i > 1
          /\ spawned[i - 1].cmd = BROWSER_INSTALL
          /\ ExitedNonZero(i - 1)

\* a step in which the retry ran and exited, with whatever code
RetryExited ==
    /\ pc = "browser_retry"
    /\ spawned' # spawned
    /\ ~spawned'[Len(spawned')].timed_out

\* C22: the browser install with system dependencies runs first; the retry
\* runs at most once and only straight after a first attempt that exited
\* non-zero, there is no third attempt, and a retry that exits, with
\* whatever code, leads on to the same next step and returns nothing.
C22_SingleRetry ==
    /\ []RetryDiscipline
    /\ [][RetryExited => (pc' = "configure" /\ result' = result
                                            /\ raised' = raised)]_vars

\* the retry failed too and the script was run all the same, with success
C22_Witness ==
    /\ Returned
    /\ \E i \in Runs(BROWSER_RETRY) : ExitedNonZero(i)
    /\ ScriptExitedZero
    /\ Envelope.success

\* C23: in one invocation the manifest install, the script and the
\* extractor each run at most once, and so do the anti-detection install,
\* the browser install and its one retry.
C23_NoRetryLoop ==
    /\ Cardinality(Runs(NPM_INSTALL)) <= 1
    /\ Cardinality(ScriptRuns) <= 1
    /\ parse_calls <= 1
    /\ Cardinality(Runs(STEALTH_INSTALL)) <= 1
    /\ Cardinality(Runs(BROWSER_INSTALL)) <= 1
    /\ Cardinality(Runs(BROWSER_RETRY)) <= 1

\* every step has run once in one invocation
C23_Witness ==
    /\ Returned
    /\ Cardinality(Runs(NPM_INSTALL)) = 1
    /\ Cardinality(Runs(BROWSER_INSTALL)) = 1
    /\ Cardinality(Runs(BROWSER_RETRY)) = 1
    /\ Cardinality(ScriptRuns) = 1
    /\ parse_calls = 1

-----------------------------------------------------------------------------
(* C24 *)

\* the request's tool type or dependencies imply use of an LLM
LLMUsageImplied == LLMDependent \/ StartsWithLower(tool_type, "hybrid")

EnvValidationFailed ==
    /\ Returned
    /\ "phase" \in DOMAIN Envelope.metadata
    /\ Envelope.metadata.phase = "environment_validation"

\* C24: a request is rejected for a missing LLM key only if its tool type
\* or dependencies imply LLM usage.
C24_KeyCheckOnlyWhenImplied ==
    EnvValidationFailed => LLMUsageImplied

-----------------------------------------------------------------------------
(* C25, C26 *)

\* an explicit browser package is declared, or the tool type begins with
\* stagehand, playwright or hybrid
BrowserRequired ==
    \/ \E i \in 1..Len(dependencies) : dependencies[i] \in browser_packages
    \/ StartsWithLower(tool_type, "stagehand")
    \/ StartsWithLower(tool_type, "playwright")
    \/ StartsWithLower(tool_type, "hybrid")

WRAPPED == "xvfb-run npx ts-node scraper.ts"
DIRECT == "npx ts-node scraper.ts"

\* C25: the script's process is the xvfb-run one exactly when a browser is
\* required, and the plain one otherwise.
C25_WrappedIffBrowser ==
    \A i \in 1..Len(spawned) :
        spawned[i].cmd \in {WRAPPED, DIRECT} =>
            (spawned[i].cmd = WRAPPED <=> BrowserRequired)

\* C26: whenever a browser is required, the anti-detection install has run,
\* once, by the time the browser install runs.
C26_StealthBeforeBrowser ==
    BrowserRequired =>
        \A i \in Runs(BROWSER_INSTALL) :
            /\ Cardinality(Runs(STEALTH_INSTALL)) = 1
            /\ \A j \in Runs(STEALTH_INSTALL) : j < i

-----------------------------------------------------------------------------
(* C27, C28 *)

\* C27: the child sees, of the host's variables, only those of
\* required_env_vars, and MAX_ITEMS and TEST_MODE are the request's values.
C27_OnlyAllowListed ==
    env # <<>> =>
        /\ \A n \in os_environ :
              n \in DOMAIN env =>
                  n \in required_env_vars \cup ExecutionParameters \cup {"DISPLAY"}
        /\ env["MAX_ITEMS"] = ToString(max_items)
        /\ env["TEST_MODE"] = (IF test_mode THEN "true" ELSE "false")

\* C28: the envelope of a run with a payload holds every record of the
\* payload's data in order, more than max_items of them too; max_items
\* shows only in MAX_ITEMS and in the limited flag.
C28_NoTruncation ==
    (Returned /\ raised = "none" /\ ScriptExitedZero /\ Truthy(result_data)) =>
        /\ Envelope.data = DataOf(result_data)
        /\ Envelope.totalFound = Len(DataOf(result_data))
        /\ Envelope.metadata.limited <=> (Len(Envelope.data) >= max_items)
        /\ env["MAX_ITEMS"] = ToString(max_items)

\* two records returned under a limit of one
C28_Witness ==
    /\ Returned
    /\ max_items = 1
    /\ result_data = P1
    /\ Envelope.data = <<"r1", "r2">>
    /\ Envelope.metadata.limited

-----------------------------------------------------------------------------
(* C29, C30 *)

HasLine(out, kind) == \E i \in 1..Len(out) : out[i].kind = kind

BothMarkers(out) == HasLine(out, "start") /\ HasLine(out, "end")

\* the text between the first start marker and the first end marker is one
\* JSON document
MarkedPayload(out) == \E i, k \in 1..Len(out) : Bracketed(out, i, k)

\* line i is a JSON object on a line of its own
RecordAt(out, i) == out[i].kind = "json" /\ out[i].value.type = "dict"

Extracted == pc = "done" /\ parse_calls = 1

\* C29: when both markers are there but the text between them is no JSON
\* document (the end marker before the start marker included), the line
\* scan still runs: a record line anywhere in stdout is returned.
C29_FallbackAfterBadMarkers ==
    (Extracted /\ BothMarkers(Stdout) /\ ~MarkedPayload(Stdout)) =>
        ((\E i \in 1..Len(Stdout) : RecordAt(Stdout, i)) => result_data # None)

\* C30: without both markers the extractor returns the first record line
\* that parses, passing over earlier brace lines that do not parse and
\* never returning a later one; with no such line it returns None.
C30_FirstRecordLine ==
    (Extracted /\ ~BothMarkers(Stdout)) =>
        \/ \E i \in 1..Len(Stdout) :
              /\ RecordAt(Stdout, i)
              /\ \A j \in 1..(i - 1) : ~RecordAt(Stdout, j)
              /\ result_data = Stdout[i].value
        \/ /\ \A i \in 1..Len(Stdout) : ~RecordAt(Stdout, i)
           /\ result_data = None

\* a brace line that does not parse, then two record lines
C30_Witness ==
    /\ Extracted
    /\ Stdout = <<BracesLine, JsonLine(P2), JsonLine(P1)>>
    /\ result_data = P2

-----------------------------------------------------------------------------
(* C31, C32: the manifest rules *)

\* the manifest after the loop over the declared dependencies and after
\* each safety net, in the order the code applies them
AfterDeclared  == AddAllDeclared(CoreDependencies, dependencies)
AfterStagehand == StagehandSafetyNet(AfterDeclared, dependencies, tool_type)
AfterPlaywright == PlaywrightSafetyNet(AfterStagehand, tool_type)
AfterHybrid    == HybridSafetyNet(AfterPlaywright, tool_type)

\* every entry of manifest a is in manifest b with the same version
Keeps(a, b) == \A k \in DOMAIN a : k \in DOMAIN b /\ b[k] = a[k]

\* C31: every entry present when a safety net runs is still there with the
\* same version after it, the core entries included, for every declared
\* dependencies list and tool type.
C31_SetIfAbsent ==
    Written =>
        /\ Keeps(CoreDependencies, AfterDeclared)
        /\ Keeps(AfterDeclared, AfterStagehand)
        /\ Keeps(AfterStagehand, AfterPlaywright)
        /\ Keeps(AfterPlaywright, AfterHybrid)
        /\ package_json = AfterHybrid

\* a hybrid request that declares playwright: the entry is there before the
\* hybrid rule, which adds the rest
C31_Witness ==
    /\ Written
    /\ tool_type = "hybrid"
    /\ dependencies = <<"playwright">>
    /\ "playwright" \in DOMAIN AfterPlaywright
    /\ STAGEHAND \notin DOMAIN AfterPlaywright
    /\ STAGEHAND \in DOMAIN package_json

\* the four rules, by number
Rules == 1..4

ApplyRule(r, d, deps, t) ==
    CASE r = 1 -> AddAllDeclared(d, deps)
      [] r = 2 -> StagehandSafetyNet(d, deps, t)
      [] r = 3 -> PlaywrightSafetyNet(d, t)
      [] OTHER -> HybridSafetyNet(d, t)

RECURSIVE ApplyInOrder(_, _, _, _)
ApplyInOrder(order, d, deps, t) ==
    IF order = <<>> THEN d
    ELSE ApplyInOrder(Tail(order), ApplyRule(Head(order), d, deps, t), deps, t)

\* the orders in which the four rules can be applied
RuleOrders == {o \in [1..4 -> Rules] : \A i, j \in 1..4 : i # j => o[i] # o[j]}

\* the orders in which the entries of deps can be listed
Reorderings(deps) ==
    {[i \in 1..Len(deps) |-> deps[f[i]]] :
        f \in {g \in [1..Len(deps) -> 1..Len(deps)] :
                  \A i, j \in 1..Len(deps) : i # j => g[i] # g[j]}}

\* C32: the four rules applied in any order, to the declared dependencies
\* in any order, give the manifest written.
C32_RulesCommute ==
    Written =>
        \A o \in RuleOrders : \A deps \in Reorderings(dependencies) :
            ApplyInOrder(o, CoreDependencies, deps, tool_type) = package_json

\* two rules that both set zod and playwright apply to the request
C32_Witness ==
    /\ Written
    /\ tool_type = "playwright"
    /\ dependencies = <<"zod", STAGEHAND>>
    /\ ApplyInOrder(<<4, 3, 2, 1>>, CoreDependencies, <<STAGEHAND, "zod">>,
                    tool_type) = package_json

-----------------------------------------------------------------------------
(* C33, C34 *)

\* C33: the stderr text in the errors entry of a script that exited
\* non-zero is no longer than the preview, whatever stderr's length.
C33_ErrorsEntryTruncated ==
    (Returned /\ ScriptExitedNonZero) =>
        \A i \in 1..Len(Envelope.errors) :
            Len(Envelope.errors[i][2]) <= PreviewLimit

\* C34: a failure envelope has no data, totalFound 0 and at least one
\* errors entry; a success envelope with data has no errors entry.
C34_NoPartialResults ==
    Returned =>
        /\ ~Envelope.success =>
              /\ Envelope.data = <<>>
              /\ Envelope.totalFound = 0
              /\ Envelope.errors # <<>>
        /\ (Envelope.success /\ Envelope.data # <<>>) => Envelope.errors = <<>>

\* the script printed a payload and then exited non-zero
C34_Witness ==
    /\ Returned
    /\ ScriptExitedNonZero
    /\ MarkedPayload(Stdout)
    /\ ~Envelope.success
    /\ Envelope.data = <<>>
    /\ Envelope.errors # <<>>

-----------------------------------------------------------------------------
(* C35 *)

\* the subprocesses one invocation may run
RunBudget ==
    /\ Cardinality(Runs(NPM_INSTALL)) <= 1
    /\ Cardinality(Runs(STEALTH_INSTALL)) <= 1
    /\ Cardinality(Runs(BROWSER_INSTALL) \cup Runs(BROWSER_RETRY)) <= 2
    /\ Cardinality(ScriptRuns) <= 1

\* C35: every invocation ends, from whatever step it is at, with exactly
\* one envelope returned, having run at most one manifest install, one
\* anti-detection install, two browser installs and one script.
C35_Terminates ==
    /\ []RunBudget
    /\ [](pc = "done" => Len(result) = 1)
    /\ (pc # "done") ~> (pc = "done" /\ Len(result) = 1)

\* an invocation that ended after the retry and a script cut off by its timeout
C35_Witness ==
    /\ pc = "done"
    /\ Len(result) = 1
    /\ Cardinality(Runs(BROWSER_INSTALL) \cup Runs(BROWSER_RETRY)) = 2
    /\ ScriptTimedOut

-----------------------------------------------------------------------------
(* C36, C37: BBBScraper *)

NoRepeats(q) == \A i, j \in 1..Len(q) : i # j => q[i] # q[j]

Elems(q) == {q[i] : i \in 1..Len(q)}

\* a call of extract_search_results: every URL it returns was not in
\* seen_urls before and is in it after
FreshReturned ==
    visited' # visited =>
        \A i \in 1..Len(urls') :
            urls'[i] \notin seen_urls /\ urls'[i] \in seen_urls'

\* C36: across the search pages of one run no company URL is collected
\* twice, every URL a call returns is new to seen_urls and in it afterwards,
\* and extract_company_data is called at most once per URL.
C36_NoUrlTwice ==
    /\ [](NoRepeats(all_company_urls) /\ NoRepeats(detailed)
            /\ Elems(all_company_urls) = seen_urls)
    /\ [][FreshReturned]_vars

\* a later page that showed an already collected URL next to a new one
C36_Witness ==
    /\ bbb_pc = "done"
    /\ Len(visited) >= 3
    /\ detailed = <<1, 2>>
    /\ seen_urls = {1, 2}

\* C37: the search pages are fetched in the order 1, 2, 3, ..., at most
\* max_pages of them; the loop goes on only after a page that gave a new
\* URL and stops at the first one that gave none; no company page is
\* fetched before the loop has stopped; the browser is closed whenever the
\* method has returned or raised after opening it.
C37_Pagination ==
    /\ visited = [i \in 1..Len(visited) |-> i]
    /\ Len(visited) <= max_pages
    /\ (bbb_pc = "search" /\ visited # <<>>) => urls # <<>>
    /\ (bbb_pc \in {"details", "done"} /\ urls # <<>>)
          => Len(visited) = max_pages
    /\ detailed # <<>> => bbb_pc \in {"details", "done", "raised"}
    /\ bbb_pc = "search" => detailed = <<>>
    /\ bbb_pc \in {"done", "raised"} => browser # "open"

\* all fifteen pages gave new URLs and the run went on to the detail pass
C37_Witness ==
    /\ bbb_pc = "done"
    /\ Len(visited) = max_pages
    /\ urls # <<>>
    /\ Len(detailed) >= max_pages
    /\ browser = "closed"


=============================================================================
